---- MODULE Spec2Model ----
(***************************************************************************)
(* Model of the PrecisionFDA chat widget (src/server.js): the request      *)
(* chain of createThreadWithMessage, the sendMessage handler that renders  *)
(* its result, the clear button, and the text pipeline of                  *)
(* sanitizeAssistantResponse.                                              *)
(*                                                                         *)
(* Text is a sequence of tokens.  A token is a string that stands for one  *)
(* lexical unit the regular expressions of the source distinguish: a word, *)
(* a whitespace character, a markdown marker, a reference marker, a piece   *)
(* of markup.  String literals of the source are single tokens.            *)
(***************************************************************************)
EXTENDS Integers, Sequences, FiniteSets, TLC

VARIABLES
    chat,                 \* children of chatMessagesContainer, in document order
    collectedReferences,  \* the global array of server.js:66
    sm,                   \* per query: where its sendMessage call stands
    pc,                   \* per query: the await createThreadWithMessage is suspended at
    outstanding,          \* per query: its fetch requests not yet answered
    last,                 \* per query: the step of the request issued last
    lastResp,             \* per query: the answer of the request answered last
    listed,               \* per query: the message list the list-messages call got
    ncalls,               \* per query: requests issued so far, by step (polls not counted)
    threadId,             \* per query: const threadId (0: not yet bound)
    runStatus,            \* per query: let runStatus
    result,               \* per query: the value createThreadWithMessage returned
    srvThreads,           \* service side: number of threads created so far
    input,                \* annotator alone: the raw text handed to it
    annotated             \* annotator alone: what its calls on that text did

vars == <<chat, collectedReferences, sm, pc, outstanding, last, lastResp, listed, ncalls,
          threadId, runStatus, result, srvThreads, input, annotated>>
annVars == <<input, annotated>>

(***************************************************************************)
(* Bounds of the model.                                                    *)
(***************************************************************************)
MaxQueries == 2      \* sendMessage calls in one behaviour
MaxMsgs == 2         \* entries of a list-messages response
MaxLen == 4          \* tokens of a text handed to the annotator alone

Queries == 1..MaxQueries

(***************************************************************************)
(* Tokens.                                                                 *)
(***************************************************************************)
SP == " "
NL == "\n"
Indent6 == "      "
Indent4 == "    "
WsTokens == {SP, NL, Indent6, Indent4}
OneCharWs == {SP, NL}

HashTok == "#"
BoldTok == "**"
LBr == "["
RBr == "]"
HeaderPhrases == {"Question Asked", "Extracted Insight", "Document Section/Page",
                  "Confidence Score", "Additional Notes"}
StrongOpen == "<strong>"
StrongClose == "</strong>"
SupOpen == "<sup>"
SupClose == "</sup>"
Comma == ","
AOpen == "<a href=https://drive.google.com/file/d/1OGt3QP7K94-P6sJFO61NodgHknDiHsXa/edit target=_blank style=text-decoration:none>"
AClose == "</a>"
\* An element written in the assistant's text itself.
RawTag == "<img src=x onerror=alert(1)>"

\* Reference markers, one token per marker; the code each carries.
Markers == {"M(4:8)", "M(4:14)", "M(9:9)", "M(7:7)"}
MarkerCode(t) ==
    CASE t = "M(4:8)" -> "4:8"
      [] t = "M(4:14)" -> "4:14"
      [] t = "M(9:9)" -> "9:9"
      [] t = "M(7:7)" -> "7:7"

\* Phrase linking: the starters, the page reference, the optional section part.
Starters == {"See", "Refer to", "For"}
PageTok == " - Page 12"
SectionTok == ", Section 4.8"
HyphenToks == {"-", PageTok, AOpen}
StopsSection == {")", NL}

\* The words createMessage looks for before it adds the Explain button.
ExplainWords == {"FDA", "Guidance", "Cosmetic"}

IndexTok(i) == <<"1", "2", "3", "4", "5", "6">>[i]

(***************************************************************************)
(* referenceDetailsMap and the fallback citation.                          *)
(***************************************************************************)
KnownCodes == {"4:8", "4:14", "4:19", "4:4", "4:7", "4:13", "4:20", "4:21", "4:5"}
referenceDetailsMap(code) ==
    CASE code = "4:8" -> "Page 12, Section 4.8"
      [] code = "4:14" -> "Page 18, Section 2"
      [] code = "4:19" -> "Page 20, Appendix B"
      [] code = "4:4" -> "Page 7, Section 1.3"
      [] code = "4:7" -> "Page 10, Section 2.1"
      [] code = "4:13" -> "Page 16, Section 3.3"
      [] code = "4:20" -> "Page 22, Nanomaterials Guidance"
      [] code = "4:21" -> "Page 24, GMP Guidelines"
      [] code = "4:5" -> "Page 8, Contact Details"

\* Variant: an unknown code is kept as its own citation.
ResolveByCode(code) ==
    IF code \in KnownCodes THEN referenceDetailsMap(code) ELSE code

\* referenceDetailsMap[refCode] || "FDA Guidance"
ResolveDetail(code) ==
    IF code \in KnownCodes THEN referenceDetailsMap(code) ELSE "FDA Guidance"

(***************************************************************************)
(* Sequence helpers.                                                       *)
(***************************************************************************)
Range(s) == {s[i] : i \in 1..Len(s)}
IndexOf(s, x) == CHOOSE i \in 1..Len(s) : s[i] = x /\ \A j \in 1..(i - 1) : s[j] # x

RECURSIVE SortedSeq(_)
SortedSeq(S) ==
    IF S = {} THEN <<>>
    ELSE LET m == CHOOSE x \in S : \A y \in S : x <= y
         IN <<m>> \o SortedSeq(S \ {m})

RECURSIVE JoinIndices(_)
JoinIndices(s) ==
    IF s = <<>> THEN <<>>
    ELSE IF Len(s) = 1 THEN <<IndexTok(s[1])>>
    ELSE <<IndexTok(s[1]), Comma>> \o JoinIndices(Tail(s))

(***************************************************************************)
(* sanitizeAssistantResponse, stage by stage.                              *)
(***************************************************************************)
RECURSIVE DropHashes(_)
DropHashes(t) ==
    IF t # <<>> /\ Head(t) = HashTok THEN DropHashes(Tail(t)) ELSE t

\* text.replace(/#+\s?/g, ''): a run of # and one whitespace character after it.
RECURSIVE StripHeadings(_)
StripHeadings(t) ==
    IF t = <<>> THEN <<>>
    ELSE IF Head(t) = HashTok
         THEN LET r == DropHashes(t)
              IN IF r # <<>> /\ Head(r) \in OneCharWs
                 THEN StripHeadings(Tail(r))
                 ELSE StripHeadings(r)
         ELSE <<Head(t)>> \o StripHeadings(Tail(t))

\* text.replace(/\*\*/g, '')
StripBold(t) == SelectSeq(t, LAMBDA x : x # BoldTok)

\* text.replace(/\[[^\]]*\]/g, ''): from a [ to the next ], when there is one.
RECURSIVE StripBrackets(_)
StripBrackets(t) ==
    IF t = <<>> THEN <<>>
    ELSE IF Head(t) = LBr /\ \E i \in 2..Len(t) : t[i] = RBr
         THEN LET i == CHOOSE k \in 2..Len(t) :
                           t[k] = RBr /\ \A j \in 2..(k - 1) : t[j] # RBr
              IN StripBrackets(SubSeq(t, i + 1, Len(t)))
         ELSE <<Head(t)>> \o StripBrackets(Tail(t))

\* the five text.replace(/(<phrase>)/gi, '<strong>$1</strong>')
RECURSIVE BoldHeadings(_)
BoldHeadings(t) ==
    IF t = <<>> THEN <<>>
    ELSE IF Head(t) \in HeaderPhrases
         THEN <<StrongOpen, Head(t), StrongClose>> \o BoldHeadings(Tail(t))
         ELSE <<Head(t)>> \o BoldHeadings(Tail(t))

\* Length of the run of markers t starts with.
RECURSIVE RunLength(_)
RunLength(t) ==
    IF t # <<>> /\ Head(t) \in Markers THEN 1 + RunLength(Tail(t)) ELSE 0

\* Variant: the detail is compared with the newest entry only.
PushIfNotLast(refs, detail) ==
    IF refs # <<>> /\ refs[Len(refs)] = detail THEN refs ELSE Append(refs, detail)

\* Variant: the detail is pushed without the includes test.
PushAlways(refs, detail) == Append(refs, detail)

\* if (!collectedReferences.includes(detail)) collectedReferences.push(detail)
PushIfNew(refs, detail) ==
    IF detail \in Range(refs) THEN refs ELSE Append(refs, detail)

\* The while loop over one run: the references after it, the indices seen in it.
RECURSIVE ScanRun(_, _, _)
ScanRun(run, refs, idx) ==
    IF run = <<>> THEN [refs |-> refs, idx |-> idx]
    ELSE LET detail == ResolveDetail(MarkerCode(Head(run)))
             refs2 == PushIfNew(refs, detail)
             index == IndexOf(refs2, detail)
         IN ScanRun(Tail(run), refs2, idx \cup {index})

\* Variant: the comparison of the sort turned round.
SortDescending(S) ==
    LET s == SortedSeq(S) IN [i \in 1..Len(s) |-> s[Len(s) + 1 - i]]

\* refIndices.sort((a, b) => a - b)
SortIndices(S) == SortedSeq(S)

\* Variant: the block prints the smallest index of the run only.
SupBlockOfFirst(idx) ==
    <<SupOpen, LBr, IndexTok(SortedSeq(idx)[1]), RBr, SupClose>>

\* the superscript block one run is replaced by
SupBlock(idx) ==
    <<SupOpen, LBr>> \o JoinIndices(SortIndices(idx)) \o <<RBr, SupClose>>

\* unifyConsecutiveReferences(text), with the global array passed through.
RECURSIVE unifyConsecutiveReferences(_, _)
unifyConsecutiveReferences(t, refs) ==
    IF t = <<>> THEN [text |-> <<>>, refs |-> refs]
    ELSE IF Head(t) \in Markers
         THEN LET n == RunLength(t)
                  r == ScanRun(SubSeq(t, 1, n), refs, {})
                  rest == unifyConsecutiveReferences(SubSeq(t, n + 1, Len(t)), r.refs)
              IN [text |-> SupBlock(r.idx) \o rest.text, refs |-> rest.refs]
         ELSE LET rest == unifyConsecutiveReferences(Tail(t), refs)
              IN [text |-> <<Head(t)>> \o rest.text, refs |-> rest.refs]

\* Where the match of the link pattern that starts at t[1] ends (0: no match).
\* [^-]+ needs one token at least before the page reference and stops at the
\* first hyphen; the section part runs up to a ")" or a newline.
RECURSIVE SectionEnd(_, _)
SectionEnd(t, i) ==
    IF i + 1 <= Len(t) /\ t[i + 1] \notin StopsSection THEN SectionEnd(t, i + 1) ELSE i

LinkMatchEnd(t) ==
    IF t = <<>> \/ Head(t) \notin Starters THEN 0
    ELSE IF \E i \in 3..Len(t) : t[i] = PageTok /\ \A j \in 2..(i - 1) : t[j] \notin HyphenToks
         THEN LET i == CHOOSE k \in 3..Len(t) :
                           t[k] = PageTok /\ \A j \in 2..(k - 1) : t[j] \notin HyphenToks
              IN IF i + 1 <= Len(t) /\ t[i + 1] = SectionTok
                 THEN SectionEnd(t, i + 1)
                 ELSE i
         ELSE 0

\* linkReferences(text)
RECURSIVE linkReferences(_)
linkReferences(t) ==
    IF t = <<>> THEN <<>>
    ELSE LET e == LinkMatchEnd(t)
         IN IF e > 0
            THEN <<AOpen, NL, Indent6>> \o SubSeq(t, 1, e) \o <<NL, Indent4, AClose>>
                     \o linkReferences(SubSeq(t, e + 1, Len(t)))
            ELSE <<Head(t)>> \o linkReferences(Tail(t))

\* text.trim()
RECURSIVE TrimLeft(_)
TrimLeft(t) == IF t # <<>> /\ Head(t) \in WsTokens THEN TrimLeft(Tail(t)) ELSE t
RECURSIVE TrimRight(_)
TrimRight(t) ==
    IF t # <<>> /\ t[Len(t)] \in WsTokens THEN TrimRight(SubSeq(t, 1, Len(t) - 1)) ELSE t
\* Variant: whitespace is removed at the start only.
TrimStartOnly(t) == TrimLeft(t)

Trim(t) == TrimRight(TrimLeft(t))

\* Variant: the array is not emptied, the new response adds to what it holds.
KeepReferences == collectedReferences

\* collectedReferences = [] at the start of sanitizeAssistantResponse
ResetReferences == <<>>

\* The text that reaches unifyConsecutiveReferences (lines 542-552).
BeforeUnify(t) == BoldHeadings(StripBrackets(StripBold(StripHeadings(t))))

\* Variant: sanitizeAssistantResponse without its first statement.
sanitizeWithoutReset(t) ==
    LET u == unifyConsecutiveReferences(BeforeUnify(t), collectedReferences)
    IN [text |-> Trim(linkReferences(u.text)), refs |-> u.refs]

\* sanitizeAssistantResponse(text): the returned string and the global array after it.
sanitizeAssistantResponse(t) ==
    LET u == unifyConsecutiveReferences(
                 BoldHeadings(StripBrackets(StripBold(StripHeadings(t)))),
                 ResetReferences)
    IN [text |-> Trim(linkReferences(u.text)), refs |-> u.refs]

(***************************************************************************)
(* getReferenceDetails and createMessage.                                  *)
(***************************************************************************)
NoReferencesHtml == "<em>No references found.</em>"
ReferencesHeading == "<strong>References</strong><br>"
PdfLink == "<a>View FDA Guidance (PDF)</a>"
BrTag == "<br>"

RECURSIVE ReferenceLines(_, _)
ReferenceLines(refs, i) ==
    IF i > Len(refs) THEN <<>>
    ELSE <<LBr, IndexTok(i), RBr, SP, refs[i], BrTag>> \o ReferenceLines(refs, i + 1)

\* getReferenceDetails(), reading the global array
getReferenceDetails(refs) ==
    IF Len(refs) = 0 THEN <<NoReferencesHtml>>
    ELSE <<ReferencesHeading>> \o ReferenceLines(refs, 1) \o <<BrTag, PdfLink>>

\* /FDA|Guidance|.../i.test(content)
MentionsGuidance(content) == \E i \in 1..Len(content) : content[i] \in ExplainWords

\* createMessage(content, sender, isError): the part of the element the chat shows.
\* explain is the Explain section built for it (<<>>: no Explain button).
createMessage(content, sender, isError, q, refs) ==
    [kind |-> sender, q |-> q, content |-> content, isError |-> isError,
     explain |-> IF sender = "chatbot" /\ MentionsGuidance(content)
                 THEN getReferenceDetails(refs)
                 ELSE <<>>]

\* createThinkingMessage()
createThinkingMessage(q) ==
    [kind |-> "thinking", q |-> q, content |-> <<".", ".", ".">>, isError |-> FALSE,
     explain |-> <<>>]

UserText == <<"question">>
GenericError == <<"Sorry, there was an error processing your request.">>

(***************************************************************************)
(* The remote service as the client sees it: what a fetch can come back    *)
(* with.  http is the outcome of fetch (rejected, or a response whose ok   *)
(* is true or false); body is what response.json() makes of the body.      *)
(***************************************************************************)
Http == {"reject", "ok", "notok"}
BodyKinds == {"badjson", "null", "obj"}
Payloads == {"p1", "p2"}
NonTerminal == {"queued", "in_progress", "cancelling"}
Terminal == {"completed", "failed"}
Statuses == NonTerminal \cup Terminal
Undefined == "undefined"

\* The text payloads a listed message can carry: none, the empty string, a value
\* that is not a string, or one of two texts.
TextIds == {"t1", "t2"}
Values == {"missing", "empty", "num"} \cup TextIds
TextOf(v) ==
    CASE v = "t1" -> <<"FDA", SP, "Question Asked", "M(4:8)", "M(4:14)">>
      [] v = "t2" -> <<"Cosmetic", "M(9:9)", SP, "w", "M(4:8)">>
Roles == {"user", "assistant"}
Entries == [role : Roles, value : Values]
MsgLists == UNION {[1..n -> Entries] : n \in 0..MaxMsgs}
NotArray == <<[role |-> "none", value |-> "missing"]>>

NoData == <<>>
Resp(http, body, payload, status, data) ==
    [http |-> http, body |-> body, payload |-> payload, status |-> status, data |-> data]

\* Responses whose content beyond http and body the step never reads.
PlainResponses ==
    {Resp("reject", "null", "p1", Undefined, NoData)}
    \cup {Resp(h, b, "p1", Undefined, NoData) : h \in {"ok", "notok"}, b \in {"badjson", "null"}}
ErrorObjects == {Resp("notok", "obj", p, Undefined, NoData) : p \in Payloads}

ThreadResponses ==
    PlainResponses \cup ErrorObjects \cup {Resp("ok", "obj", "p1", Undefined, NoData)}
MessageResponses == ThreadResponses
RunResponses ==
    PlainResponses \cup ErrorObjects
    \cup {Resp("ok", "obj", "p1", s, NoData) : s \in Statuses \cup {Undefined}}
\* A poll answer carries a status, or no status field.
PollResponses ==
    PlainResponses
    \cup {Resp(h, "obj", "p1", s, NoData) :
              h \in {"ok", "notok"}, s \in Statuses \cup {Undefined}}
ListResponses ==
    PlainResponses \cup ErrorObjects
    \cup {Resp("ok", "obj", "p1", Undefined, d) : d \in MsgLists \cup {NotArray}}

(***************************************************************************)
(* The strings createThreadWithMessage returns.                            *)
(***************************************************************************)
\* `${threadData}`: String() of the parsed body
StringOf(r) == IF r.body = "null" THEN <<"null">> ELSE <<LBr, "object Object", RBr>>
\* JSON.stringify of the parsed body
JsonOf(r) == IF r.body = "null" THEN <<"null">> ELSE <<"{error:", r.payload, "}">>

\* error.message of what the try block threw
ErrorMessage(r) ==
    IF r.http = "reject" THEN "Failed to fetch"
    ELSE IF r.body = "badjson" THEN "Unexpected token"
    ELSE "Cannot read properties of null"

Str(kind, text) == [kind |-> kind, str |-> TRUE, text |-> text]
NoResult == [kind |-> "none", str |-> TRUE, text |-> <<>>]

ThreadCreationError(r) ==
    Str("ThreadCreationError", <<"Failed to create thread. Details:", SP>> \o StringOf(r))
MessagePostError(r) ==
    Str("MessagePostError", <<"Failed to add message to thread. Details:", SP>> \o JsonOf(r))
RunStartError(r) ==
    Str("RunStartError", <<"Failed to run assistant on thread. Details:", SP>> \o JsonOf(r))
PollProtocolError == Str("PollProtocolError", <<"Failed to retrieve run status.">>)
RunFailedError == Str("RunFailedError", <<"Assistant failed to process the thread.">>)
MessageFetchError(r) ==
    Str("MessageFetchError",
        <<"Failed to fetch assistant response. Status: 500, Details:", SP>> \o JsonOf(r))
NoResponseError == Str("EmptyResponseError", <<"No response from assistant.">>)
NoMessagesError(r) ==
    Str("EmptyResponseError",
        <<"No messages found or the response structure is unexpected.", SP>>
            \o (IF r.body = "null" THEN <<"null">>
                ELSE IF r.data = NotArray THEN <<"{}">> ELSE <<"{data:", LBr, RBr, "}">>))
TransportError(r) ==
    Str("TransportError",
        <<"An error occurred while processing your request:", SP, ErrorMessage(r)>>)
\* the text of an assistant message, returned as it is (a string or not)
AssistantValue(v) ==
    IF v = "num" THEN [kind |-> "Text", str |-> FALSE, text |-> <<"42">>]
    ELSE [kind |-> "Text", str |-> TRUE, text |-> TextOf(v)]

\* Every string createThreadWithMessage can return, and what
\* sanitizeAssistantResponse makes of each of them (computed once).
AllResponses ==
    ThreadResponses \cup MessageResponses \cup RunResponses \cup PollResponses
        \cup ListResponses
ReturnedTexts ==
    {PollProtocolError.text, RunFailedError.text, NoResponseError.text}
    \cup {TextOf(v) : v \in TextIds}
    \cup UNION {{ThreadCreationError(r).text, MessagePostError(r).text,
                 RunStartError(r).text, MessageFetchError(r).text,
                 NoMessagesError(r).text, TransportError(r).text} : r \in AllResponses}
Sanitized == [t \in ReturnedTexts |-> sanitizeAssistantResponse(t)]

(***************************************************************************)
(* createThreadWithMessage: what each step does with the answer it gets.   *)
(* "throw" is an exception inside the try block (fetch rejected, json()    *)
(* failed, a property read on null), "error" the step's own error return,  *)
(* "next" the fall-through to the following statement.                     *)
(***************************************************************************)
Throws(r) == r.http = "reject" \/ r.body = "badjson"

\* create thread: await fetch, await json(), if (!ok) return, threadData.id
AfterThread(r) ==
    IF Throws(r) THEN "throw"
    ELSE IF r.http # "ok" THEN "error"
    ELSE IF r.body = "null" THEN "throw"
    ELSE "next"

\* add message: await fetch, await json(), if (!ok) return
AfterMessage(r) ==
    IF Throws(r) THEN "throw"
    ELSE IF r.http # "ok" THEN "error"
    ELSE "next"

\* start run: await fetch, await json(), if (!ok) return, runData.id
AfterRun(r) ==
    IF Throws(r) THEN "throw"
    ELSE IF r.http # "ok" THEN "error"
    ELSE IF r.body = "null" THEN "throw"
    ELSE "next"

\* Variant: the poll data is used without the test of its status field.
AfterPollNoStatusCheck(r) ==
    IF Throws(r) \/ r.body = "null" THEN "throw" ELSE "next"

\* one poll: await fetch, await json(), if (!pollData.status) return
AfterPoll(r) ==
    IF Throws(r) \/ r.body = "null" THEN "throw"
    ELSE IF r.status = Undefined THEN "error"
    ELSE "next"

\* Variants: the loop test with one of its two comparisons left out.
LoopIgnoresCompleted(s) == s # "failed"
LoopIgnoresFailed(s) == s # "completed"

\* while (runStatus !== 'completed' && runStatus !== 'failed')
LoopContinues(s) == s # "completed" /\ s # "failed"

\* Variant: no test for a failed run after the loop.
AfterLoopNoFailedCheck(s) == "next"

\* if (runStatus === 'failed') return ...; otherwise fetch the messages
AfterLoop(s) == IF s = "failed" THEN "error" ELSE "next"

\* list messages: await fetch, await json(), if (!ok) return, the shape test
AfterMessages(r) ==
    IF Throws(r) THEN "throw"
    ELSE IF r.http # "ok" THEN "error"
    ELSE IF r.body = "null" \/ r.data = NotArray \/ Len(r.data) = 0 THEN "nomessages"
    ELSE "find"

\* messagesData.data.find((msg) => msg.role === 'assistant'): its index, 0 when none
FindAssistant(data) ==
    IF \E i \in 1..Len(data) : data[i].role = "assistant"
    THEN CHOOSE i \in 1..Len(data) :
             data[i].role = "assistant" /\ \A j \in 1..(i - 1) : data[j].role # "assistant"
    ELSE 0

\* Variant: the first assistant entry that has a text, instead of the first one.
ExtractFirstUsable(data) ==
    LET ok == {i \in 1..Len(data) :
                  data[i].role = "assistant" /\ data[i].value \notin {"missing", "empty"}}
    IN IF ok = {} THEN NoResponseError
       ELSE AssistantValue(data[CHOOSE i \in ok : \A j \in ok : i <= j].value)

\* assistantMessage && content && content[0]?.text?.value ? value : 'No response ...'
ExtractText(data) ==
    LET i == FindAssistant(data)
    IN IF i = 0 THEN NoResponseError
       ELSE IF data[i].value \in {"missing", "empty"} THEN NoResponseError
       ELSE AssistantValue(data[i].value)

(***************************************************************************)
(* sendMessage.                                                            *)
(***************************************************************************)
Request(kind, tid) == [kind |-> kind, thread |-> tid]

HasThinking(c, q) == \E i \in 1..Len(c) : c[i].kind = "thinking" /\ c[i].q = q
\* Variant: every thinking indicator in the chat is removed.
RemoveEveryThinking(c, q) == SelectSeq(c, LAMBDA m : m.kind # "thinking")

\* chatMessagesContainer.removeChild(thinkingMessage), when it is a child
RemoveThinking(c, q) == SelectSeq(c, LAMBDA m : ~(m.kind = "thinking" /\ m.q = q))

\* The part of sendMessage after await createThreadWithMessage(userMessage): the
\* try block, its catch block, and the statements after them.  removeChild throws
\* when the thinking element is no child of the container (the chat was cleared, or
\* the try block removed it already); thrown from the catch block, the exception
\* leaves sendMessage.
ResumeSendMessage(q, res) ==
    IF ~HasThinking(chat, q)
    THEN /\ sm' = [sm EXCEPT ![q] = "rejected"]
         /\ UNCHANGED <<chat, collectedReferences>>
    ELSE IF res.str
         THEN LET s == Sanitized[res.text]
              IN /\ collectedReferences' = s.refs
                 /\ chat' = Append(RemoveThinking(chat, q),
                                   createMessage(s.text, "chatbot", FALSE, q, s.refs))
                 /\ sm' = [sm EXCEPT ![q] = "finished"]
         ELSE /\ collectedReferences' = ResetReferences
              /\ chat' = RemoveThinking(chat, q)
              /\ sm' = [sm EXCEPT ![q] = "rejected"]

\* return <string> in createThreadWithMessage, and sendMessage resuming with it
Return(q, res) ==
    /\ pc' = [pc EXCEPT ![q] = "done"]
    /\ result' = [result EXCEPT ![q] = res]
    /\ ResumeSendMessage(q, res)

Continue(q, at) ==
    /\ pc' = [pc EXCEPT ![q] = at]
    /\ UNCHANGED <<chat, collectedReferences, sm, result>>

Count(n, kind) == IF kind = "poll" THEN n ELSE [n EXCEPT ![kind] = @ + 1]

\* the answered request leaves, nothing is sent
Consume(q) ==
    /\ outstanding' = [outstanding EXCEPT ![q] = Tail(@)]
    /\ UNCHANGED <<last, ncalls>>

\* the answered request leaves and fetch sends the next one
ConsumeAndFetch(q, kind, tid) ==
    /\ outstanding' = [outstanding EXCEPT ![q] = Append(Tail(@), Request(kind, tid))]
    /\ last' = [last EXCEPT ![q] = kind]
    /\ ncalls' = [ncalls EXCEPT ![q] = Count(@, kind)]

\* fetch sends a request while none was answered in this step
Fetch(q, kind, tid) ==
    /\ outstanding' = [outstanding EXCEPT ![q] = Append(@, Request(kind, tid))]
    /\ last' = [last EXCEPT ![q] = kind]
    /\ ncalls' = [ncalls EXCEPT ![q] = Count(@, kind)]

\* what the step got: the outcome of fetch, of json(), the status field and the
\* error payload of the parsed body
Seen(step, r) ==
    [step |-> step, http |-> r.http, body |-> r.body, status |-> r.status,
     payload |-> r.payload]
NotSeen ==
    [step |-> "none", http |-> "none", body |-> "none", status |-> Undefined,
     payload |-> "none"]
Answered(q, r) == lastResp' = [lastResp EXCEPT ![q] = Seen(pc[q], r)]
Awaiting(q, kind) ==
    pc[q] = kind /\ outstanding[q] # <<>> /\ Head(outstanding[q]).kind = kind

\* Variant: the widget accepts a message only while no query is in flight.
SendsOneAtATime(q) ==
    /\ sm[q] = "idle"
    /\ \A p \in Queries : p < q => sm[p] # "idle"
    /\ \A p \in Queries : sm[p] # "awaiting"

\* if (input.value.trim() !== ''): the only test sendMessage makes; the queries
\* are numbered in the order of their sendMessage calls.
CanSend(q) ==
    /\ sm[q] = "idle"
    /\ \A p \in Queries : p < q => sm[p] # "idle"

\* sendMessage up to its await: the user's message and the thinking indicator are
\* appended, createThreadWithMessage starts and sends the create-thread request.
sendMessage(q) ==
    /\ CanSend(q)
    /\ chat' = chat \o <<createMessage(UserText, "user", FALSE, q, collectedReferences),
                         createThinkingMessage(q)>>
    /\ sm' = [sm EXCEPT ![q] = "awaiting"]
    /\ pc' = [pc EXCEPT ![q] = "thread"]
    /\ Fetch(q, "thread", 0)
    /\ UNCHANGED <<collectedReferences, lastResp, listed, threadId, runStatus, result,
                   srvThreads, annVars>>

\* Variant: one thread kept for the whole conversation, reused by later queries.
ReuseThread(q, id) ==
    IF \E p \in Queries : threadId[p] # 0
    THEN threadId[CHOOSE p \in Queries : threadId[p] # 0]
    ELSE id

\* const threadId = threadData.id: the identifier the query uses from here on
BoundThread(q, id) == id

\* lines 582-599
ThreadResponse(q) ==
    /\ Awaiting(q, "thread")
    /\ \E r \in ThreadResponses :
          /\ Answered(q, r)
          /\ CASE AfterThread(r) = "next" ->
                    /\ srvThreads' = srvThreads + 1
                    /\ threadId' = [threadId EXCEPT ![q] = BoundThread(q, srvThreads + 1)]
                    /\ ConsumeAndFetch(q, "message", BoundThread(q, srvThreads + 1))
                    /\ Continue(q, "message")
               [] AfterThread(r) = "error" ->
                    /\ Return(q, ThreadCreationError(r))
                    /\ Consume(q)
                    /\ UNCHANGED <<threadId, srvThreads>>
               [] OTHER ->
                    /\ Return(q, TransportError(r))
                    /\ Consume(q)
                    /\ UNCHANGED <<threadId, srvThreads>>
    /\ UNCHANGED <<runStatus, listed, annVars>>

\* lines 604-621
MessageResponse(q) ==
    /\ Awaiting(q, "message")
    /\ \E r \in MessageResponses :
          /\ Answered(q, r)
          /\ CASE AfterMessage(r) = "next" ->
                    /\ ConsumeAndFetch(q, "run", threadId[q])
                    /\ Continue(q, "run")
               [] AfterMessage(r) = "error" ->
                    /\ Return(q, MessagePostError(r))
                    /\ Consume(q)
               [] OTHER ->
                    /\ Return(q, TransportError(r))
                    /\ Consume(q)
    /\ UNCHANGED <<threadId, runStatus, listed, srvThreads, annVars>>

\* The loop test with a status just read, and what follows the loop (lines 651,
\* 669-676): wait for the timer, return the failure, or fetch the messages.
LoopStep(q, s) ==
    IF LoopContinues(s)
    THEN Continue(q, "sleep") /\ Consume(q)
    ELSE IF AfterLoop(s) = "error"
         THEN Return(q, RunFailedError) /\ Consume(q)
         ELSE Continue(q, "messages") /\ ConsumeAndFetch(q, "messages", threadId[q])

\* lines 627-651
RunResponse(q) ==
    /\ Awaiting(q, "run")
    /\ \E r \in RunResponses :
          /\ Answered(q, r)
          /\ CASE AfterRun(r) = "next" ->
                    /\ runStatus' = [runStatus EXCEPT ![q] = r.status]
                    /\ LoopStep(q, r.status)
               [] AfterRun(r) = "error" ->
                    /\ Return(q, RunStartError(r))
                    /\ Consume(q)
                    /\ UNCHANGED runStatus
               [] OTHER ->
                    /\ Return(q, TransportError(r))
                    /\ Consume(q)
                    /\ UNCHANGED runStatus
    /\ UNCHANGED <<threadId, listed, srvThreads, annVars>>

\* line 652-653: the one-second timer fires and the poll request is sent
TimerFires(q) ==
    /\ pc[q] = "sleep"
    /\ Fetch(q, "poll", threadId[q])
    /\ Continue(q, "poll")
    /\ UNCHANGED <<lastResp, listed, threadId, runStatus, srvThreads, annVars>>

\* lines 653-667, the answer drawn from R
PollResponseFrom(q, R) ==
    /\ Awaiting(q, "poll")
    /\ \E r \in R :
          /\ Answered(q, r)
          /\ CASE AfterPoll(r) = "next" ->
                    /\ runStatus' = [runStatus EXCEPT ![q] = r.status]
                    /\ LoopStep(q, r.status)
               [] AfterPoll(r) = "error" ->
                    /\ Return(q, PollProtocolError)
                    /\ Consume(q)
                    /\ UNCHANGED runStatus
               [] OTHER ->
                    /\ Return(q, TransportError(r))
                    /\ Consume(q)
                    /\ UNCHANGED runStatus
    /\ UNCHANGED <<threadId, listed, srvThreads, annVars>>

PollResponse(q) == PollResponseFrom(q, PollResponses)

\* lines 676-704; `observed` says whether the history variable listed keeps the
\* array that was answered
MessagesResponseWith(q, observed) ==
    /\ Awaiting(q, "messages")
    /\ \E r \in ListResponses :
          /\ Answered(q, r)
          /\ listed' = IF observed THEN [listed EXCEPT ![q] = r.data] ELSE listed
          /\ Consume(q)
          /\ CASE AfterMessages(r) = "find" -> Return(q, ExtractText(r.data))
               [] AfterMessages(r) = "nomessages" -> Return(q, NoMessagesError(r))
               [] AfterMessages(r) = "error" -> Return(q, MessageFetchError(r))
               [] OTHER -> Return(q, TransportError(r))
    /\ UNCHANGED <<threadId, runStatus, srvThreads, annVars>>

MessagesResponse(q) == MessagesResponseWith(q, FALSE)
MessagesResponseObserved(q) == MessagesResponseWith(q, TRUE)

\* clearBtn.onclick, the confirmation answered with OK
clearBtnOnclick ==
    /\ chat' = <<>>
    /\ UNCHANGED <<collectedReferences, sm, pc, outstanding, last, lastResp, listed,
                   ncalls, threadId, runStatus, result, srvThreads, annVars>>

\* No text was handed to the annotator alone, and no such call was made.
NoInput == <<>>
NotAnnotated == [calls |-> 0, text |-> <<>>, trace |-> <<>>, twice |-> <<>>]

Steps == {"thread", "message", "run", "poll", "messages"}
Counted == Steps \ {"poll"}

Init ==
    /\ chat = <<>>
    /\ collectedReferences = <<>>
    /\ sm = [q \in Queries |-> "idle"]
    /\ pc = [q \in Queries |-> "idle"]
    /\ outstanding = [q \in Queries |-> <<>>]
    /\ last = [q \in Queries |-> "none"]
    /\ lastResp = [q \in Queries |-> NotSeen]
    /\ listed = [q \in Queries |-> NoData]
    /\ ncalls = [q \in Queries |-> [k \in Counted |-> 0]]
    /\ threadId = [q \in Queries |-> 0]
    /\ runStatus = [q \in Queries |-> Undefined]
    /\ result = [q \in Queries |-> NoResult]
    /\ srvThreads = 0
    /\ input = NoInput
    /\ annotated = NotAnnotated

Next ==
    \/ \E q \in Queries : sendMessage(q)
    \/ \E q \in Queries : ThreadResponse(q)
    \/ \E q \in Queries : MessageResponse(q)
    \/ \E q \in Queries : RunResponse(q)
    \/ \E q \in Queries : TimerFires(q)
    \/ \E q \in Queries : PollResponse(q)
    \/ \E q \in Queries : MessagesResponse(q)
    \/ clearBtnOnclick

Spec == Init /\ [][Next]_vars

(***************************************************************************)
(* One query alone: the first sendMessage call, its request chain, and the *)
(* clear button.                                                           *)
(***************************************************************************)
First == CHOOSE q \in Queries : \A p \in Queries : q <= p

NextQuery ==
    \/ sendMessage(First)
    \/ ThreadResponse(First)
    \/ MessageResponse(First)
    \/ RunResponse(First)
    \/ TimerFires(First)
    \/ PollResponse(First)
    \/ MessagesResponseObserved(First)
    \/ clearBtnOnclick

SpecQuery == Init /\ [][NextQuery]_vars

\* Every request is answered and every timer fires.  The query waits at one
\* await at a time, so one of these steps at most is enabled.
ChainStep(q) ==
    \/ ThreadResponse(q)
    \/ MessageResponse(q)
    \/ RunResponse(q)
    \/ TimerFires(q)
    \/ PollResponse(q)
    \/ MessagesResponseObserved(q)

FairQuery == SpecQuery /\ WF_vars(ChainStep(First))

\* A poll answered with the status completed or failed.
TerminalPolls == {r \in PollResponses : r.body = "obj" /\ r.status \in Terminal}
PollTerminal(q) == PollResponseFrom(q, TerminalPolls)

\* Moreover the run finishes: the polls do not go on for ever without one of them
\* reporting completed or failed.
FairFinishing == FairQuery /\ SF_vars(PollTerminal(First))

(***************************************************************************)
(* The annotator alone: sanitizeAssistantResponse called with a text drawn *)
(* from Texts, after any number of calls with earlier responses, and then  *)
(* called once more with the string it returned.                           *)
(***************************************************************************)
InputTokens ==
    {"w", SP, NL, HashTok, BoldTok, LBr, RBr, "Question Asked", "See", "-", PageTok,
     SectionTok, RawTag} \cup Markers
Texts == UNION {[1..n -> InputTokens] : n \in 0..MaxLen}
EarlierTexts == {TextOf(v) : v \in TextIds}

\* The values the global array takes while unifyConsecutiveReferences scans u:
\* the array before each marker, and the array at the end.
RECURSIVE RefsTrace(_, _)
RefsTrace(u, refs) ==
    IF u = <<>> THEN <<refs>>
    ELSE IF Head(u) \in Markers
         THEN <<refs>> \o RefsTrace(Tail(u),
                                    PushIfNew(refs, ResolveDetail(MarkerCode(Head(u)))))
         ELSE RefsTrace(Tail(u), refs)

InitAnnotate ==
    /\ chat = <<>>
    /\ collectedReferences = <<>>
    /\ sm = [q \in Queries |-> "idle"]
    /\ pc = [q \in Queries |-> "idle"]
    /\ outstanding = [q \in Queries |-> <<>>]
    /\ last = [q \in Queries |-> "none"]
    /\ lastResp = [q \in Queries |-> NotSeen]
    /\ listed = [q \in Queries |-> NoData]
    /\ ncalls = [q \in Queries |-> [k \in Counted |-> 0]]
    /\ threadId = [q \in Queries |-> 0]
    /\ runStatus = [q \in Queries |-> Undefined]
    /\ result = [q \in Queries |-> NoResult]
    /\ srvThreads = 0
    /\ input \in Texts
    /\ annotated = NotAnnotated

chatVars == <<chat, sm, pc, outstanding, last, lastResp, listed, ncalls, threadId,
              runStatus, result, srvThreads>>

\* sanitizeAssistantResponse called with an earlier response
AnnotateEarlier ==
    /\ annotated.calls = 0
    /\ \E h \in EarlierTexts :
          collectedReferences' = sanitizeAssistantResponse(h).refs
    /\ UNCHANGED <<chatVars, input, annotated>>

\* sanitizeAssistantResponse(input)
AnnotateInput ==
    /\ annotated.calls = 0
    /\ LET s == sanitizeAssistantResponse(input)
       IN /\ collectedReferences' = s.refs
          /\ annotated' = [calls |-> 1, text |-> s.text,
                           trace |-> <<collectedReferences>>
                                        \o RefsTrace(BeforeUnify(input), ResetReferences),
                           twice |-> <<>>]
    /\ UNCHANGED <<chatVars, input>>

\* sanitizeAssistantResponse called with the string the call before returned
AnnotateAgain ==
    /\ annotated.calls = 1
    /\ LET s == sanitizeAssistantResponse(annotated.text)
       IN /\ collectedReferences' = s.refs
          /\ annotated' = [annotated EXCEPT !.calls = 2, !.twice = s.text]
    /\ UNCHANGED <<chatVars, input>>

NextAnnotate ==
    \/ AnnotateEarlier
    \/ AnnotateInput
    \/ AnnotateAgain

SpecAnnotate == InitAnnotate /\ [][NextAnnotate]_vars

TypeOK ==
    /\ \A q \in Queries : pc[q] \in {"idle", "sleep", "done"} \cup Steps
    /\ \A q \in Queries : sm[q] \in {"idle", "awaiting", "finished", "rejected"}

(***************************************************************************)
(* Properties.                                                             *)
(***************************************************************************)
ErrorKinds == {"ThreadCreationError", "MessagePostError", "RunStartError",
               "PollProtocolError", "RunFailedError", "MessageFetchError",
               "EmptyResponseError", "TransportError"}

\* A request of query q is sent in this step.
Issued(q) ==
    /\ outstanding'[q] # <<>>
    /\ outstanding'[q] # outstanding[q]
Newest(q) == outstanding'[q][Len(outstanding'[q])].kind

\* The answer in lastResp[q] was parsed into an object by the step `step`.
Parsed(q, step) ==
    /\ lastResp[q].step = step
    /\ lastResp[q].http # "reject"
    /\ lastResp[q].body = "obj"

\* The run status the query read from its last answer, if that answer carried one.
ObservedStatus(q) ==
    IF (Parsed(q, "run") /\ lastResp[q].http = "ok") \/ Parsed(q, "poll")
    THEN lastResp[q].status
    ELSE "none"

ChatbotEntries(c, q) == {i \in 1..Len(c) : c[i].kind = "chatbot" /\ c[i].q = q}
Shown(text) == sanitizeAssistantResponse(text).text
AssistantContents == {Shown(TextOf(v)) : v \in TextIds}

\* C1: within one query the requests are sent in the order create-thread,
\* post-message, start-run, polls, list-messages; each is sent only after the
\* previous request of the query was answered with a success response; and the
\* query never has two requests outstanding.
C1_CallOrder ==
    [][\A q \in Queries :
          Issued(q) =>
            /\ Len(outstanding'[q]) = 1
            /\ Newest(q) = "thread" => last[q] = "none"
            /\ Newest(q) = "message" => last[q] = "thread"
            /\ Newest(q) = "run" => last[q] = "message"
            /\ Newest(q) = "poll" => last[q] \in {"run", "poll"}
            /\ Newest(q) = "messages" => last[q] \in {"run", "poll"}
            /\ Newest(q) # "thread" => lastResp'[q].http = "ok"]_vars

\* The part of C1 that does not speak of success responses: the order of the
\* requests, one outstanding at most.
CallOrderOnly ==
    [][\A q \in Queries :
          Issued(q) =>
            /\ Len(outstanding'[q]) = 1
            /\ Newest(q) = "thread" => last[q] = "none"
            /\ Newest(q) = "message" => last[q] = "thread"
            /\ Newest(q) = "run" => last[q] = "message"
            /\ Newest(q) = "poll" => last[q] \in {"run", "poll"}
            /\ Newest(q) = "messages" => last[q] \in {"run", "poll"}
            /\ Newest(q) \in {"message", "run"} => lastResp'[q].http = "ok"]_vars

StepError(step) ==
    CASE step = "thread" -> "ThreadCreationError"
      [] step = "message" -> "MessagePostError"
      [] step = "run" -> "RunStartError"

\* C2: when create-thread, post-message or start-run is answered with a
\* non-success status, the query ends at that step with the error of that step,
\* and no request of a later step is sent.
C2_StepErrors ==
    \A q \in Queries :
        lastResp[q].step \in {"thread", "message", "run"} /\ lastResp[q].http = "notok" =>
            /\ pc[q] = "done"
            /\ result[q].kind = StepError(lastResp[q].step)
            /\ last[q] = lastResp[q].step
            /\ outstanding[q] = <<>>

\* The part of C2 about the requests: after a non-success answer of one of the
\* first three steps the query is over and has sent nothing more.
StepFailureEndsQuery ==
    \A q \in Queries :
        lastResp[q].step \in {"thread", "message", "run"} /\ lastResp[q].http = "notok" =>
            /\ pc[q] = "done"
            /\ result[q].kind \in {StepError(lastResp[q].step), "TransportError"}
            /\ last[q] = lastResp[q].step
            /\ outstanding[q] = <<>>

\* C3: the query waits for a poll or has one outstanding only while the status
\* it read last is neither completed nor failed; a status other than these two
\* keeps it polling; the list-messages request is sent only after completed was
\* read.
C3_PollLoop ==
    \A q \in Queries :
        /\ pc[q] \in {"sleep", "poll"} =>
              /\ lastResp[q].step \in {"run", "poll"}
              /\ ObservedStatus(q) \notin Terminal
        /\ ObservedStatus(q) \in NonTerminal => pc[q] \in {"sleep", "poll"}
        /\ pc[q] = "messages" => ObservedStatus(q) = "completed"
        /\ ncalls[q]["messages"] > 0 => runStatus[q] = "completed"
        /\ (pc[q] = "done" /\ lastResp[q].step = "poll") =>
              \/ ObservedStatus(q) = "failed"
              \/ Parsed(q, "poll") /\ lastResp[q].status = Undefined
              \/ result[q].kind = "TransportError"

\* C3 witness: a poll was answered with a status the client does not know, and the
\* query waits for the next poll.
C3_Witness ==
    \E q \in Queries :
        pc[q] = "sleep" /\ lastResp[q].step = "poll" /\ lastResp[q].status = "cancelling"

\* C4: once the status failed is read, the query has returned RunFailedError, has
\* sent no list-messages request, and every reply shown for it in the chat is that
\* error text, never the text of an assistant message.
C4_RunFailed ==
    \A q \in Queries :
        ObservedStatus(q) = "failed" =>
            /\ pc[q] = "done"
            /\ result[q] = RunFailedError
            /\ ncalls[q]["messages"] = 0
            /\ \A i \in ChatbotEntries(chat, q) :
                  /\ chat[i].content = RunFailedError.text
                  /\ chat[i].content \notin AssistantContents

\* C4 witness: failed was read from a poll and the error is shown in the chat.
C4_Witness ==
    \E q \in Queries :
        /\ ObservedStatus(q) = "failed"
        /\ lastResp[q].step = "poll"
        /\ ChatbotEntries(chat, q) # {}

\* C5: every query sends create-thread exactly once and post-message, start-run
\* and list-messages at most once; its later requests all address the thread its
\* own create-thread call returned; no two queries use the same thread.
C5_NoRetryNoReuse ==
    \A q \in Queries :
        /\ \A k \in Counted : ncalls[q][k] <= 1
        /\ sm[q] # "idle" => ncalls[q]["thread"] = 1
        /\ \A i \in 1..Len(outstanding[q]) :
              outstanding[q][i].kind # "thread" =>
                  /\ threadId[q] # 0
                  /\ outstanding[q][i].thread = threadId[q]
        /\ \A p \in Queries : p # q /\ threadId[p] # 0 => threadId[p] # threadId[q]

\* C5 witness: two queries ran to their list-messages call, each on its own thread.
C5_Witness ==
    \E p, q \in Queries :
        /\ p # q
        /\ threadId[p] # 0 /\ threadId[q] # 0
        /\ ncalls[p]["messages"] = 1 /\ ncalls[q]["messages"] = 1
        /\ pc[p] = "done" /\ pc[q] = "done"

\* C6: a query that is polling eventually leaves the poll loop, also when no poll
\* is ever answered with completed or failed.
C6_PollingBounded ==
    \A q \in Queries : (pc[q] \in {"sleep", "poll"}) ~> (pc[q] \notin {"sleep", "poll"})

\* C7: when every request is answered and the run finishes, a query that was sent
\* eventually returns.
C7_Returns ==
    \A q \in Queries : (pc[q] \notin {"idle", "done"}) ~> (pc[q] = "done")

\* C7 witness: a query returned after a poll told it the run ended.
C7_Witness ==
    \E q \in Queries :
        /\ pc[q] = "done"
        /\ lastResp[q].step = "messages"
        /\ last[q] = "messages"
        /\ runStatus[q] = "completed"
        /\ result[q].kind = "Text"

\* C8: when a query returns an error, the sendMessage call that awaited it ends
\* normally and the chat then shows exactly one reply for the query, the error
\* string, and no thinking indicator.
C8_ErrorsRendered ==
    [][\A q \in Queries :
          (pc[q] # "done" /\ pc'[q] = "done" /\ result'[q].kind \in ErrorKinds) =>
              /\ sm'[q] = "finished"
              /\ ~HasThinking(chat', q)
              /\ Cardinality(ChatbotEntries(chat', q)) = 1
              /\ \A i \in ChatbotEntries(chat', q) : chat'[i].content = Shown(result'[q].text)]_vars

\* The part of C8 about createThreadWithMessage: whatever the service answers,
\* the call ends by returning a string of one of the error kinds or a text.
AlwaysReturnsValue ==
    \A q \in Queries :
        pc[q] = "done" => result[q].kind \in ErrorKinds \cup {"Text"}

\* C9: once a poll answer without a status field is read, the query has returned
\* PollProtocolError, has nothing outstanding and has sent no list-messages request.
C9_PollProtocol ==
    \A q \in Queries :
        (Parsed(q, "poll") /\ lastResp[q].status = Undefined) =>
            /\ pc[q] = "done"
            /\ result[q] = PollProtocolError
            /\ outstanding[q] = <<>>
            /\ last[q] = "poll"
            /\ ncalls[q]["messages"] = 0

\* C9 witness: a poll answer without a status field ended the query.
C9_Witness ==
    \E q \in Queries :
        Parsed(q, "poll") /\ lastResp[q].status = Undefined /\ pc[q] = "done"

\* What C10 expects of a listed array d: the text of its first assistant entry.
FirstAssistantText(d) ==
    LET A == {i \in 1..Len(d) : d[i].role = "assistant"}
    IN IF A = {} THEN "none"
       ELSE d[CHOOSE i \in A : \A j \in A : i <= j].value

\* C10: after a successful list-messages answer with an array, the result is the
\* text of the first assistant entry; when there is no such entry, the array is
\* empty, or that text is missing or empty, it is EmptyResponseError.
C10_FirstAssistant ==
    \A q \in Queries :
        (Parsed(q, "messages") /\ lastResp[q].http = "ok" /\ listed[q] # NotArray) =>
            LET v == FirstAssistantText(listed[q])
            IN IF v \in {"none", "missing", "empty"}
               THEN result[q].kind = "EmptyResponseError"
               ELSE /\ result[q].kind = "Text"
                    /\ result[q] = AssistantValue(v)

\* C10 witness: the first assistant entry has an empty text, a later one has a
\* text, and the result is EmptyResponseError.
C10_Witness ==
    \E q \in Queries :
        /\ Parsed(q, "messages") /\ lastResp[q].http = "ok"
        /\ Len(listed[q]) = 2
        /\ listed[q][1] = [role |-> "assistant", value |-> "empty"]
        /\ listed[q][2] = [role |-> "assistant", value |-> "t1"]
        /\ result[q].kind = "EmptyResponseError"

\* Query q is in flight: sent, its createThreadWithMessage call not yet returned.
InFlight(q) == sm[q] = "awaiting" /\ pc[q] \notin {"idle", "done"}

\* C11: queries are not serialized: while an earlier query is in flight the next
\* query can be sent, and sending it starts its own request chain with a
\* create-thread request of its own.
C11_NotSerialized ==
    \A q \in Queries :
        (sm[q] = "idle" /\ \A p \in Queries : p < q => sm[p] # "idle") =>
            ENABLED (/\ sendMessage(q)
                     /\ pc'[q] = "thread"
                     /\ outstanding'[q] = <<Request("thread", 0)>>
                     /\ \A p \in Queries : p # q => outstanding'[p] = outstanding[p])

\* C11 witness: two queries in flight at once, each with a request outstanding.
C11_Witness ==
    \E p, q \in Queries :
        /\ p # q
        /\ InFlight(p) /\ InFlight(q)
        /\ outstanding[p] # <<>> /\ outstanding[q] # <<>>

\* What annotating the text t alone gives, starting from an empty array: the
\* returned string and the citations collected.
AnnotatedAlone(t) ==
    LET u == unifyConsecutiveReferences(BeforeUnify(t), <<>>)
    IN [text |-> Trim(linkReferences(u.text)), refs |-> u.refs]

\* AnnotatedAlone of every string createThreadWithMessage can return.
Alone == [t \in ReturnedTexts |-> AnnotatedAlone(t)]

\* The Explain section a reply with this content shows for these citations.
ExplainFor(content, refs) ==
    IF MentionsGuidance(content) THEN getReferenceDetails(refs) ELSE <<>>

\* Some reply shown in chat c for a returned response is not the one its text
\* alone gives: other footnote indices, or another Explain reference list.
Corrupted(c, res) ==
    \E q \in Queries :
        /\ res[q].kind = "Text" /\ res[q].str
        /\ \E i \in ChatbotEntries(c, q) :
              \/ c[i].content # Alone[res[q].text].text
              \/ c[i].explain # ExplainFor(c[i].content, Alone[res[q].text].refs)

\* C12 as claimed: when the response of one query is shown and another query
\* awaits its list-messages answer, some answer makes the second annotator call
\* leave a reply whose footnotes or Explain list are not those of its own text.
C12_CanCorrupt ==
    \A p, q \in Queries :
        (/\ p # q
         /\ result[p].kind = "Text" /\ result[p].str
         /\ ChatbotEntries(chat, p) # {}
         /\ Awaiting(q, "messages") /\ HasThinking(chat, q)) =>
            ENABLED (MessagesResponse(q) /\ Corrupted(chat', result'))

\* C12 amended: in every interleaving of the queries, every reply shown for a
\* returned response has the footnote indices and the Explain reference list of
\* the citations collected from that response alone.
C12_NoCorruption == ~Corrupted(chat, result)

\* C12 witness: two queries were in flight together (both messages of the user
\* come before both replies), and both replies show footnotes, with different
\* Explain lists.
C12_Witness ==
    /\ Len(chat) = 4
    /\ chat[1].kind = "user" /\ chat[2].kind = "user"
    /\ chat[3].kind = "chatbot" /\ chat[4].kind = "chatbot"
    /\ chat[3].q # chat[4].q
    /\ SupOpen \in Range(chat[3].content) /\ SupOpen \in Range(chat[4].content)
    /\ chat[3].explain # <<>> /\ chat[4].explain # <<>>
    /\ chat[3].explain # chat[4].explain

NoDuplicates(s) == \A i, j \in 1..Len(s) : s[i] = s[j] => i = j
IsPrefix(s, t) == Len(s) <= Len(t) /\ \A i \in 1..Len(s) : s[i] = t[i]

\* The citation strings of the markers of u, in the order of their first marker.
MarkerPositions(u) == {i \in 1..Len(u) : u[i] \in Markers}
Cited(u, i) == ResolveDetail(MarkerCode(u[i]))
FirstPosition(u, d) ==
    CHOOSE i \in MarkerPositions(u) :
        Cited(u, i) = d /\ \A j \in MarkerPositions(u) : Cited(u, j) = d => i <= j
FirstSeen(u) ==
    LET D == {Cited(u, i) : i \in MarkerPositions(u)}
    IN [k \in 1..Cardinality(D) |->
            CHOOSE d \in D :
                Cardinality({e \in D : FirstPosition(u, e) < FirstPosition(u, d)}) = k - 1]

\* C13: the global array never holds a citation string twice, neither between
\* the annotator calls nor at any point during a call; after a call it lists the
\* citation strings of the response in the order they were first seen, and
\* during the call it is a beginning of that list.
C13_DistinctFirstSeen ==
    /\ NoDuplicates(collectedReferences)
    /\ \A k \in 1..Len(annotated.trace) : NoDuplicates(annotated.trace[k])
    /\ annotated.calls = 1 =>
          /\ collectedReferences = FirstSeen(BeforeUnify(input))
          /\ \A k \in 2..Len(annotated.trace) :
                IsPrefix(annotated.trace[k], FirstSeen(BeforeUnify(input)))

\* C13 witness: a response that cites one string, then another, then the first
\* again, annotated after an earlier response had left its citations in the array.
C13_Witness ==
    /\ annotated.calls = 1
    /\ Len(input) = 3
    /\ input[1] \in Markers /\ input[2] \in Markers /\ input[3] = input[1]
    /\ Len(collectedReferences) = 2
    /\ annotated.trace[1] # <<>>

\* C14: whatever annotator calls came before, a call returns the string and
\* leaves the array that the text gives when annotated from an empty array: both
\* depend on the text only.
C14_TextOnly ==
    /\ annotated.calls >= 1 =>
          annotated.text = AnnotatedAlone(input).text
    /\ annotated.calls = 1 =>
          collectedReferences = AnnotatedAlone(input).refs
    /\ annotated.calls = 2 =>
          /\ annotated.twice = AnnotatedAlone(annotated.text).text
          /\ collectedReferences = AnnotatedAlone(annotated.text).refs

\* C14 witness: a text with a marker annotated when the array still held the
\* citations of an earlier response, which are not those of the text.
C14_Witness ==
    /\ annotated.calls = 1
    /\ annotated.trace[1] # <<>>
    /\ collectedReferences # <<>>
    /\ ~IsPrefix(annotated.trace[1], collectedReferences)

\* The maximal runs of markers of u, each as <<first, last>>, and the k-th of them.
Runs(u) ==
    {<<a, b>> \in (1..Len(u)) \X (1..Len(u)) :
        /\ a <= b
        /\ \A i \in a..b : u[i] \in Markers
        /\ (a = 1 \/ u[a - 1] \notin Markers)
        /\ (b = Len(u) \/ u[b + 1] \notin Markers)}
RunNumber(u, k) ==
    CHOOSE r \in Runs(u) : Cardinality({x \in Runs(u) : x[1] < r[1]}) = k - 1

\* The footnote markers of an output o: where each starts, and what the k-th
\* prints between <sup>[ and ]</sup>.
SupPositions(o) == {i \in 1..Len(o) : o[i] = SupOpen}
SupNumber(o, k) ==
    CHOOSE p \in SupPositions(o) : Cardinality({x \in SupPositions(o) : x < p}) = k - 1
WellFormedSup(o, p) ==
    /\ p + 1 <= Len(o) /\ o[p + 1] = LBr
    /\ \E c \in (p + 2)..Len(o) : o[c] = RBr /\ c + 1 <= Len(o) /\ o[c + 1] = SupClose
Printed(o, p) ==
    LET c == CHOOSE x \in (p + 2)..Len(o) :
                 o[x] = RBr /\ \A y \in (p + 2)..(x - 1) : o[y] # RBr
    IN SubSeq(o, p + 2, c - 1)

\* The 1-based position of the citation string d in refs.
PositionIn(refs, d) == CHOOSE i \in 1..Len(refs) : refs[i] = d
\* The printed tokens list exactly the indices of S, ascending, comma-separated.
PrintsAscending(toks, S) ==
    /\ Len(toks) = 2 * Cardinality(S) - 1
    /\ \A j \in 1..Len(toks) : j % 2 = 0 => toks[j] = Comma
    /\ \A i \in S : \E j \in 1..Len(toks) : j % 2 = 1 /\ toks[j] = IndexTok(i)
    /\ \A j \in 1..Len(toks) : j % 2 = 1 => \E i \in S : toks[j] = IndexTok(i)
    /\ \A j, k \in 1..Len(toks) :
          (j % 2 = 1 /\ k % 2 = 1 /\ j < k) =>
              \E a, b \in S : a < b /\ toks[j] = IndexTok(a) /\ toks[k] = IndexTok(b)

\* C15: the output has one footnote marker for each maximal run of markers of
\* the text that reaches the unification stage, in the same order; the marker of
\* a run prints the positions in the array of the citations of the run, each
\* once, ascending, comma-separated.  The adjacent markers for 4:8 and 4:14 give
\* <sup>[1,2]</sup> and the two citations of the table.
C15_OneFootnotePerRun ==
    annotated.calls = 1 =>
        LET u == BeforeUnify(input)
            o == annotated.text
        IN /\ Cardinality(SupPositions(o)) = Cardinality(Runs(u))
           /\ \A k \in 1..Cardinality(Runs(u)) :
                 LET r == RunNumber(u, k)
                     p == SupNumber(o, k)
                 IN /\ WellFormedSup(o, p)
                    /\ PrintsAscending(
                           Printed(o, p),
                           {PositionIn(collectedReferences, Cited(u, i)) : i \in r[1]..r[2]})
           /\ input = <<"M(4:8)", "M(4:14)">> =>
                 /\ o = <<SupOpen, LBr, "1", Comma, "2", RBr, SupClose>>
                 /\ collectedReferences = <<"Page 12, Section 4.8", "Page 18, Section 2">>

\* C15 witness: a second run cites the second citation before the first, with one
\* of them twice, and its footnote marker prints [1,2].
C15_Witness ==
    /\ annotated.calls = 1
    /\ input = <<"M(4:8)", "w", "M(4:14)", "M(4:8)">>
    /\ annotated.text = <<SupOpen, LBr, "1", RBr, SupClose, "w",
                          SupOpen, LBr, "1", Comma, "2", RBr, SupClose>>

\* The index tokens the footnote marker at p prints.
PrintedIndices(o, p) == {Printed(o, p)[j] : j \in {x \in 1..Len(Printed(o, p)) : x % 2 = 1}}

\* C16: when a code occurs in two different runs of a response, the array holds
\* its citation once, and the footnote markers of both runs print the position
\* of that one entry.
C16_SameIndexAgain ==
    annotated.calls = 1 =>
        LET u == BeforeUnify(input)
            o == annotated.text
            n == Cardinality(Runs(u))
        IN \A k1, k2 \in 1..n :
             k1 < k2 =>
               \A i \in RunNumber(u, k1)[1]..RunNumber(u, k1)[2] :
                 \A j \in RunNumber(u, k2)[1]..RunNumber(u, k2)[2] :
                   MarkerCode(u[i]) = MarkerCode(u[j]) =>
                     /\ Cardinality({x \in 1..Len(collectedReferences) :
                                        collectedReferences[x] = Cited(u, i)}) = 1
                     /\ \E x \in 1..Len(collectedReferences) :
                           /\ collectedReferences[x] = Cited(u, i)
                           /\ IndexTok(x) \in PrintedIndices(o, SupNumber(o, k1))
                           /\ IndexTok(x) \in PrintedIndices(o, SupNumber(o, k2))

\* C16 witness: the code 4:8 in a first run after 4:14 and alone in a second run;
\* the second footnote marker prints the index 2 again and the array has two entries.
C16_Witness ==
    /\ annotated.calls = 1
    /\ input = <<"M(4:14)", "M(4:8)", "w", "M(4:8)">>
    /\ annotated.text = <<SupOpen, LBr, "1", Comma, "2", RBr, SupClose, "w",
                          SupOpen, LBr, "2", RBr, SupClose>>
    /\ Len(collectedReferences) = 2

\* The markers of u whose code the table does not know.
UnknownPositions(u) == {i \in MarkerPositions(u) : MarkerCode(u[i]) \notin KnownCodes}

\* C17: when a response has markers with codes the table does not know, the
\* array holds "FDA Guidance" once, at the position after the citations first
\* seen before the first such marker, and the footnote marker of every run with
\* an unknown code, whichever code it is, prints that position.
C17_FallbackSlot ==
    annotated.calls = 1 =>
        LET u == BeforeUnify(input)
            o == annotated.text
            refs == collectedReferences
            U == UnknownPositions(u)
        IN U # {} =>
             LET first == CHOOSE i \in U : \A j \in U : i <= j
                 slot == 1 + Cardinality({referenceDetailsMap(MarkerCode(u[j])) :
                                             j \in {x \in MarkerPositions(u) : x < first}})
             IN /\ slot <= Len(refs) /\ refs[slot] = "FDA Guidance"
                /\ \A x \in 1..Len(refs) : refs[x] = "FDA Guidance" => x = slot
                /\ \A k \in 1..Cardinality(Runs(u)) :
                      (\E i \in U : RunNumber(u, k)[1] <= i /\ i <= RunNumber(u, k)[2]) =>
                          IndexTok(slot) \in PrintedIndices(o, SupNumber(o, k))

\* C17 witness: the unknown code 9:9 first, then a run with another unknown code
\* and a known one; both footnote markers print 1 for "FDA Guidance".
C17_Witness ==
    /\ annotated.calls = 1
    /\ input = <<"M(9:9)", "w", "M(7:7)", "M(4:8)">>
    /\ annotated.text = <<SupOpen, LBr, "1", RBr, SupClose, "w",
                          SupOpen, LBr, "1", Comma, "2", RBr, SupClose>>
    /\ collectedReferences = <<"FDA Guidance", "Page 12, Section 4.8">>

\* The words of a text: its tokens without whitespace and without the markup the
\* pipeline inserts around phrases.
InsertedMarkup == {StrongOpen, StrongClose, AOpen, AClose}
Words(t) == SelectSeq(t, LAMBDA x : x \notin WsTokens \cup InsertedMarkup)

\* C18: for a text without reference markers the annotator returns a string
\* without footnote markers and leaves the array empty; the string has every
\* section-header phrase wrapped in <strong>, no whitespace at its ends, and,
\* when the text has no markdown marker or bracket either, the words of the
\* text, all of them and in their order.
C18_NoMarkers ==
    (annotated.calls = 1 /\ MarkerPositions(input) = {}) =>
        LET o == annotated.text
        IN /\ SupOpen \notin Range(o) /\ SupClose \notin Range(o)
           /\ collectedReferences = <<>>
           /\ \A k \in 2..Len(annotated.trace) : annotated.trace[k] = <<>>
           /\ \A i \in 1..Len(o) :
                 o[i] \in HeaderPhrases =>
                     /\ i > 1 /\ o[i - 1] = StrongOpen
                     /\ i < Len(o) /\ o[i + 1] = StrongClose
           /\ o # <<>> => (o[1] \notin WsTokens /\ o[Len(o)] \notin WsTokens)
           /\ Range(input) \cap {HashTok, BoldTok, LBr} = {} => Words(o) = Words(input)

\* C18 witness: a text with a header phrase and whitespace at both ends, no
\* marker, annotated when the array held the citations of an earlier response.
C18_Witness ==
    /\ annotated.calls = 1
    /\ input = <<SP, "Question Asked", "w", NL>>
    /\ annotated.text = <<StrongOpen, "Question Asked", StrongClose, "w">>
    /\ annotated.trace[1] # <<>>
    /\ collectedReferences = <<>>

\* C19: for a text without markdown markers (#, **, brackets) and without
\* reference markers, annotating the returned string once more returns the same
\* string, also when the text holds a section-header phrase or a phrase that is
\* linked.
C19_Idempotent ==
    (/\ annotated.calls = 2
     /\ Range(input) \cap ({HashTok, BoldTok, LBr, RBr} \cup Markers) = {}) =>
        annotated.twice = annotated.text

\* The part of C19 that holds: texts that have neither a section-header phrase
\* nor a phrase that is linked.
IdempotentOnPlainText ==
    (/\ annotated.calls = 2
     /\ Range(input) \cap ({HashTok, BoldTok, LBr, RBr} \cup Markers) = {}
     /\ Range(input) \cap HeaderPhrases = {}
     /\ AOpen \notin Range(annotated.text)) =>
        annotated.twice = annotated.text

\* Query q returns an error in this step.
Fails(q) == pc[q] # "done" /\ pc'[q] = "done" /\ result'[q].kind \in ErrorKinds

\* C20: the step in which a query fails leaves every message the chat showed
\* before it as it was and where it was, except the thinking indicator of that
\* query, and leaves the other queries as they were; and after a failure the
\* next query can still be sent.
C20_FailureIsLocal ==
    /\ [][\A q \in Queries :
            Fails(q) =>
              /\ SelectSeq(chat', LAMBDA m : ~(m.kind = "chatbot" /\ m.q = q))
                   = SelectSeq(chat, LAMBDA m : ~(m.kind = "thinking" /\ m.q = q))
              /\ \A p \in Queries :
                    p # q => /\ sm'[p] = sm[p] /\ pc'[p] = pc[p]
                             /\ outstanding'[p] = outstanding[p]
                             /\ result'[p] = result[p]]_vars
    /\ [](\A q, p \in Queries :
            (/\ pc[q] = "done" /\ result[q].kind \in ErrorKinds
             /\ sm[p] = "idle" /\ \A x \in Queries : x < p => sm[x] # "idle") =>
                ENABLED sendMessage(p))

\* C20 witness: a response with footnotes and an Explain list was shown, then
\* another query failed and its error is shown after it; the response is as its
\* text alone gives it.
C20_Witness ==
    \E p, q \in Queries :
        /\ p # q
        /\ pc[p] = "done" /\ result[p].kind = "Text" /\ result[p].str
        /\ pc[q] = "done" /\ result[q].kind \in ErrorKinds
        /\ \E i \in ChatbotEntries(chat, p) :
              /\ chat[i].explain # <<>>
              /\ SupOpen \in Range(chat[i].content)
              /\ chat[i].content = Alone[result[p].text].text
              /\ \E j \in ChatbotEntries(chat, q) : i < j

\* The query ended with the error of `step`, returned for a non-success answer
\* whose body was an object.
ErrorPayloadReturned(q, step) ==
    /\ pc[q] = "done"
    /\ result[q].kind = StepError(step)
    /\ Parsed(q, step) /\ lastResp[q].http = "notok"

\* C21: the error returned for a non-success create-thread answer contains the
\* error payload the service answered with, as the errors of post-message and
\* start-run do.
C21_PayloadCarried ==
    \A q \in Queries :
        \A step \in {"thread", "message", "run"} :
            ErrorPayloadReturned(q, step) => lastResp[q].payload \in Range(result[q].text)

\* The part of C21 about post-message and start-run: their errors contain the
\* payload.
LaterStepsCarryPayload ==
    \A q \in Queries :
        \A step \in {"message", "run"} :
            ErrorPayloadReturned(q, step) => lastResp[q].payload \in Range(result[q].text)

\* What the create-thread error is instead: the same string for every payload.
ThreadErrorHidesPayload ==
    \A q \in Queries :
        ErrorPayloadReturned(q, "thread") =>
            result[q].text = <<"Failed to create thread. Details:", SP, LBr, "object Object", RBr>>

\* C22: no markup of the raw text reaches the returned fragment: an element
\* written in the input is not in the output.
C22_HtmlSafe ==
    annotated.calls >= 1 => RawTag \notin Range(annotated.text)

\* What the pipeline does with such an element: outside bracketed content it is
\* returned as it was written, as often as it was written.
RawMarkupReturned ==
    annotated.calls >= 1 =>
        Len(SelectSeq(annotated.text, LAMBDA x : x = RawTag))
            = Len(SelectSeq(StripBrackets(input), LAMBDA x : x = RawTag))

\* createThreadWithMessage of query q returns in this step.
Returns(q) == pc[q] # "done" /\ pc'[q] = "done"

\* In this step the thinking indicator of q leaves the chat and one reply of q is
\* appended at its end.
RepliedOnce(q) ==
    /\ HasThinking(chat, q) /\ ~HasThinking(chat', q)
    /\ Len(chat') = Len(chat)
    /\ chat'[Len(chat')].kind = "chatbot" /\ chat'[Len(chat')].q = q
    /\ ChatbotEntries(chat', q) = {Len(chat')}

\* The chat was not cleared since the first message was sent: the message of
\* every query sent so far is still shown.
NoClearYet ==
    \A q \in Queries :
        sm[q] # "idle" => \E i \in 1..Len(chat) : chat[i].kind = "user" /\ chat[i].q = q
ThinkingShown == Len(SelectSeq(chat, LAMBDA m : m.kind = "thinking"))
QueriesInFlight == Cardinality({q \in Queries : sm[q] = "awaiting"})

\* C23: whenever the request chain of a query returns, whatever the user did
\* meanwhile, the thinking indicator of the query is removed in that step and one
\* reply for it is appended; and in every state reached without a clear there are
\* as many thinking indicators as queries in flight.
C23_OneReplyEach ==
    [][/\ \A q \in Queries : Returns(q) => RepliedOnce(q)
       /\ NoClearYet' => ThinkingShown' = QueriesInFlight']_vars

\* The part of C23 the handler keeps: a string returned while the indicator is
\* still in the chat is answered with one reply, and without a clear the
\* indicators shown are those of the queries in flight.
RepliedOnceWhenShown ==
    [][/\ \A q \in Queries :
             Returns(q) /\ HasThinking(chat, q) /\ result'[q].str => RepliedOnce(q)
       /\ NoClearYet' => ThinkingShown' = QueriesInFlight']_vars

\* After a clear the chain returns to a chat without the indicator: nothing is
\* appended and sendMessage ends with the exception of removeChild.
NoReplyAfterClear ==
    [][\A q \in Queries :
          Returns(q) /\ ~HasThinking(chat, q) => chat' = chat /\ sm'[q] = "rejected"]_vars

\* The chain of q returns, in this step, a value that is no string while the
\* thinking indicator of q is shown: text.replace throws in
\* sanitizeAssistantResponse, after the indicator was removed.
ThrowsWhileProcessing(q) ==
    Returns(q) /\ HasThinking(chat, q) /\ ~result'[q].str

\* C24: when processing the received response throws after the thinking
\* indicator was removed, the generic error message is appended to the chat and
\* sendMessage runs to its end.
C24_GenericErrorShown ==
    [][\A q \in Queries :
          ThrowsWhileProcessing(q) =>
              /\ chat' = Append(RemoveThinking(chat, q),
                                createMessage(GenericError, "chatbot", TRUE, q,
                                              collectedReferences'))
              /\ sm'[q] = "finished"]_vars

\* What the handler does instead: the indicator is gone, nothing is appended,
\* and sendMessage ends with the exception of the second removeChild.
ThrowLeavesNoReply ==
    [][\A q \in Queries :
          ThrowsWhileProcessing(q) =>
              /\ chat' = RemoveThinking(chat, q)
              /\ collectedReferences' = <<>>
              /\ sm'[q] = "rejected"]_vars

\* The generic error message is never in the chat.
GenericErrorNeverShown ==
    \A i \in 1..Len(chat) : chat[i].content # GenericError

\* The indices the footnote markers of o print are positions of refs, and every
\* position of refs is printed by one of them.
IndicesMatch(o, refs) ==
    /\ \A p \in SupPositions(o) :
          /\ WellFormedSup(o, p)
          /\ \A tok \in PrintedIndices(o, p) : \E i \in 1..Len(refs) : tok = IndexTok(i)
    /\ \A i \in 1..Len(refs) :
          \E p \in SupPositions(o) : IndexTok(i) \in PrintedIndices(o, p)

\* C25 as stated: after a call, the printed indices lie in 1..Len of the array,
\* every entry of the array is cited by a footnote marker, and there are as many
\* footnote markers as maximal runs of markers in the input.
C25_FootnotesMatchInput ==
    annotated.calls = 1 =>
        /\ IndicesMatch(annotated.text, collectedReferences)
        /\ Cardinality(SupPositions(annotated.text)) = Cardinality(Runs(input))

\* C25: after a call, the printed indices lie in 1..Len of the array, every
\* entry of the array is cited by a footnote marker, and there are as many
\* footnote markers as maximal runs of markers in the text that is left when
\* heading markers, bold markers and bracketed content are removed.
C25_FootnotesMatchStripped ==
    annotated.calls = 1 =>
        /\ IndicesMatch(annotated.text, collectedReferences)
        /\ Cardinality(SupPositions(annotated.text))
               = Cardinality(Runs(BeforeUnify(input)))

\* C25 witness: removing markup joined two runs of the input into one, whose
\* footnote marker cites two entries; the array held other entries before.
C25_Witness ==
    /\ annotated.calls = 1
    /\ Cardinality(Runs(input)) = 2
    /\ Cardinality(SupPositions(annotated.text)) = 1
    /\ Len(collectedReferences) = 2
    /\ annotated.trace[1] # <<>>
====
